---- MODULE Spec2Model ----
(***************************************************************************)
(* A model of redditdownload.py: the link resolver (_extractUrls,          *)
(* _processImgurUrl), the gallery expander (_extractImgurAlbumUrls), the   *)
(* content fetcher (_downloadFromUrl) and the feed walker (the __main__    *)
(* loop).  URLs, titles, header values and page lines are TLA+ strings;    *)
(* the Python string operations are modelled character by character.       *)
(***************************************************************************)
EXTENDS Integers, Sequences, FiniteSets, TLC

(***************************************************************************)
(* Python string operations                                                *)
(***************************************************************************)

\* s[i:] in Python terms, with i a 1-based first position.
StrFrom(s, i) == SubSeq(s, i, Len(s))

\* s.endswith(suf)
EndsWith(s, suf) ==
    /\ Len(s) >= Len(suf)
    /\ SubSeq(s, Len(s) - Len(suf) + 1, Len(s)) = suf

\* s.startswith(pre)
StartsWith(s, pre) ==
    /\ Len(s) >= Len(pre)
    /\ SubSeq(s, 1, Len(pre)) = pre

\* True when sub occurs in s at 1-based position i.
OccursAt(s, sub, i) ==
    /\ i >= 1
    /\ i + Len(sub) - 1 <= Len(s)
    /\ SubSeq(s, i, i + Len(sub) - 1) = sub

\* sub in s
Contains(s, sub) == \E i \in 1..(Len(s) - Len(sub) + 1) : OccursAt(s, sub, i)

\* s.rfind(c) + 1 for a one-character c: the 1-based position of the last
\* occurrence of c in s, 0 when there is none.
RFind(s, c) ==
    LET hits == {i \in 1..Len(s) : SubSeq(s, i, i) = c}
    IN  IF hits = {} THEN 0 ELSE CHOOSE i \in hits : \A j \in hits : j <= i

\* s.replace(old, new): every non-overlapping occurrence, left to right.
RECURSIVE StrReplace(_, _, _)
StrReplace(s, old, new) ==
    IF Len(s) < Len(old) THEN s
    ELSE IF OccursAt(s, old, 1)
         THEN new \o StrReplace(StrFrom(s, Len(old) + 1), old, new)
         ELSE SubSeq(s, 1, 1) \o StrReplace(StrFrom(s, 2), old, new)

\* os.path.basename(p): everything after the last "/".
Basename(p) == StrFrom(p, RFind(p, "/") + 1)

\* os.path.splitext(p)[1]: the text from the last "." on, provided that dot
\* comes after the last "/" and some character between them is not a dot
\* (leading dots of the file name do not start an extension).
SplitextExt(p) ==
    LET sepIndex == RFind(p, "/")
        dotIndex == RFind(p, ".")
    IN  IF /\ dotIndex > sepIndex
           /\ \E k \in (sepIndex + 1)..(dotIndex - 1) : SubSeq(p, k, k) # "."
        THEN StrFrom(p, dotIndex)
        ELSE ""

(***************************************************************************)
(* HTTP: what urllib2.urlopen gives back                                   *)
(***************************************************************************)

\* A server's answer to a GET: err is "" for a response, else the name of
\* the exception urlopen raises; info maps lower-cased header names to
\* values; body is the payload as a sequence of lines.
OkResponse(info, body) == [err |-> "", info |-> info, body |-> body]
ErrResponse(e) == [err |-> e, info |-> ("content-length" :> "0"), body |-> <<>>]

NoTypeInfo == ("content-length" :> "3")
TypeInfo(t) == ("content-length" :> "3") @@ ("content-type" :> t)

\* The three exceptions the walker's handlers name.
TransportErrors == {"HTTPError", "URLError", "InvalidURL"}

\* urllib2's splittype finds a scheme when the text before the first ":" is
\* non-empty and holds no "/"; without one Request.get_type raises
\* ValueError before anything is sent.
HasScheme(url) ==
    \E i \in 2..Len(url) :
        /\ SubSeq(url, i, i) = ":"
        /\ \A k \in 1..(i - 1) : SubSeq(url, k, k) \notin {"/", ":"}

\* urllib2.urlopen(url), the server answering resp.
UrlOpen(url, resp) ==
    IF ~HasScheme(url) THEN ErrResponse("ValueError") ELSE resp

(***************************************************************************)
(* Gallery expander                                                        *)
(***************************************************************************)

HashMarker == "\"hash\":\""

\* re.findall(r'\"hash\":\"(.[^\"]*)\"', line) scanning from position p: a
\* match needs the marker, one character of any kind, then the first quote
\* after it; the scan resumes behind that quote.
RECURSIVE HashTokens(_, _)
HashTokens(line, p) ==
    IF p + Len(HashMarker) > Len(line) THEN <<>>
    ELSE LET first  == p + Len(HashMarker)
             quotes == {k \in (first + 1)..Len(line) : SubSeq(line, k, k) = "\""}
         IN  IF OccursAt(line, HashMarker, p) /\ quotes # {}
             THEN LET q == CHOOSE k \in quotes : \A j \in quotes : k <= j
                  IN  <<SubSeq(line, first, q - 1)>> \o HashTokens(line, q + 1)
             ELSE HashTokens(line, p + 1)

\* items after the loop over fp.readlines()
RECURSIVE AlbumItems(_)
AlbumItems(lines) ==
    IF lines = <<>> THEN <<>>
    ELSE HashTokens(Head(lines), 1) \o AlbumItems(Tail(lines))

\* _extractImgurAlbumUrls(albumUrl): raised is "" on a normal return; net
\* tells whether a request was sent (none is for a URL without a scheme).
ExtractImgurAlbumUrls(albumUrl, resp) ==
    LET response == UrlOpen(albumUrl, resp)
        info     == response.info
        items    == AlbumItems(response.body)
    IN  IF response.err # ""
        THEN [raised |-> response.err, urls |-> <<>>,
              net    |-> HasScheme(albumUrl)]
        ELSE IF /\ "content-type" \in DOMAIN info
                /\ ~StartsWith(info["content-type"], "text/html")
        THEN [raised |-> "", urls |-> <<>>, net |-> TRUE]
        ELSE [raised |-> "",
              urls   |-> [i \in 1..Len(items) |->
                             "http://i.imgur.com/" \o items[i] \o ".jpg"],
              net    |-> TRUE]

(***************************************************************************)
(* Link resolver                                                           *)
(***************************************************************************)

\* _processImgurUrl(url)
ProcessImgurUrl(url, resp) ==
    IF Contains(url, "imgur.com/a/")
    THEN ExtractImgurAlbumUrls(url, resp)
    ELSE IF EndsWith(url, ".png")
    THEN [raised |-> "", urls |-> <<StrReplace(url, ".png", ".jpg")>>, net |-> FALSE]
    ELSE IF SplitextExt(Basename(url)) = ""
    THEN [raised |-> "", urls |-> <<url \o ".jpg">>, net |-> FALSE]
    ELSE [raised |-> "", urls |-> <<url>>, net |-> FALSE]

\* _extractUrls(url); resp is the answer a GET of url would get.
ExtractUrls(url, resp) ==
    IF Contains(url, "imgur.com")
    THEN ProcessImgurUrl(url, resp)
    ELSE [raised |-> "", urls |-> <<url>>, net |-> FALSE]

(***************************************************************************)
(* Content fetcher                                                         *)
(***************************************************************************)

AcceptedTypes == {"image/jpeg", "image/png", "image/gif"}

\* The type taken from the url first and from the header only after it.
FileTypeUrlFirst(url, info) ==
    IF EndsWith(url, ".jpg") \/ EndsWith(url, ".jpeg") THEN "image/jpeg"
    ELSE IF EndsWith(url, ".png") THEN "image/png"
    ELSE IF EndsWith(url, ".gif") THEN "image/gif"
    ELSE IF "content-type" \in DOMAIN info THEN info["content-type"]
    ELSE "unknown"

\* The file type worked out from the response or the url.
FileType(url, info) ==
    IF "content-type" \in DOMAIN info THEN info["content-type"]
    ELSE IF EndsWith(url, ".jpg") \/ EndsWith(url, ".jpeg") THEN "image/jpeg"
    ELSE IF EndsWith(url, ".png") THEN "image/png"
    ELSE IF EndsWith(url, ".gif") THEN "image/gif"
    ELSE "unknown"

\* An existence test that never sees a downloaded file.
PathExistsBlind(dir, name) == name \in {"", ".", ".."}

\* os.path.exists(os.path.join(destDir, name)) for an existing destDir whose
\* files are dir (name -> content): "", "." and ".." name directories.
PathExists(dir, name) == name \in {"", ".", ".."} \/ name \in DOMAIN dir

\* The fetcher looking for a file named by the whole URL.
DownloadFromUrlChecksUrl(url, resp, dir, isDir) ==
    LET response == UrlOpen(url, resp)
        filetype == FileType(url, response.info)
        filename == Basename(url)
    IN  IF response.err # ""
        THEN [raised |-> response.err, dir |-> dir]
        ELSE IF filetype \notin AcceptedTypes
        THEN [raised |-> "WrongFileTypeException", dir |-> dir]
        ELSE IF isDir /\ PathExists(dir, url)
        THEN [raised |-> "FileExistsException", dir |-> dir]
        ELSE IF ~isDir
        THEN [raised |-> "IOError", dir |-> dir]
        ELSE [raised |-> "", dir |-> (filename :> response.body) @@ dir]

\* The fetcher returning the file name without writing the file.
DownloadFromUrlDryRun(url, resp, dir, isDir) ==
    LET response == UrlOpen(url, resp)
        filetype == FileType(url, response.info)
        filename == Basename(url)
    IN  IF response.err # ""
        THEN [raised |-> response.err, dir |-> dir]
        ELSE IF filetype \notin AcceptedTypes
        THEN [raised |-> "WrongFileTypeException", dir |-> dir]
        ELSE IF isDir /\ PathExists(dir, filename)
        THEN [raised |-> "FileExistsException", dir |-> dir]
        ELSE IF ~isDir
        THEN [raised |-> "IOError", dir |-> dir]
        ELSE [raised |-> "", dir |-> dir]

\* The fetcher looking for an existing file before it looks at the type.
DownloadFromUrlExistsFirst(url, resp, dir, isDir) ==
    LET response == UrlOpen(url, resp)
        filetype == FileType(url, response.info)
        filename == Basename(url)
    IN  IF response.err # ""
        THEN [raised |-> response.err, dir |-> dir]
        ELSE IF isDir /\ PathExists(dir, filename)
        THEN [raised |-> "FileExistsException", dir |-> dir]
        ELSE IF filetype \notin AcceptedTypes
        THEN [raised |-> "WrongFileTypeException", dir |-> dir]
        ELSE IF ~isDir
        THEN [raised |-> "IOError", dir |-> dir]
        ELSE [raised |-> "", dir |-> (filename :> response.body) @@ dir]

\* The fetcher writing without looking for an existing file.
DownloadFromUrlOverwrites(url, resp, dir, isDir) ==
    LET response == UrlOpen(url, resp)
        filetype == FileType(url, response.info)
        filename == Basename(url)
    IN  IF response.err # ""
        THEN [raised |-> response.err, dir |-> dir]
        ELSE IF filetype \notin AcceptedTypes
        THEN [raised |-> "WrongFileTypeException", dir |-> dir]
        ELSE IF ~isDir
        THEN [raised |-> "IOError", dir |-> dir]
        ELSE [raised |-> "", dir |-> (filename :> response.body) @@ dir]

\* _downloadFromUrl(url, destDir): raised is "" when the file was written;
\* dir is the destination directory after the call.  isDir tells whether
\* destDir is a directory: under a path that is none os.path.exists finds
\* nothing and open(filename, 'wb') raises IOError.
DownloadFromUrl(url, resp, dir, isDir) ==
    LET response == UrlOpen(url, resp)
        filetype == FileType(url, response.info)
        filename == Basename(url)
    IN  IF response.err # ""
        THEN [raised |-> response.err, dir |-> dir]
        ELSE IF filetype \notin AcceptedTypes
        THEN [raised |-> "WrongFileTypeException", dir |-> dir]
        ELSE IF isDir /\ PathExists(dir, filename)
        THEN [raised |-> "FileExistsException", dir |-> dir]
        ELSE IF ~isDir
        THEN [raised |-> "IOError", dir |-> dir]
        ELSE [raised |-> "", dir |-> (filename :> response.body) @@ dir]

(***************************************************************************)
(* Feed walker: the __main__ loop                                          *)
(***************************************************************************)

VARIABLES
    args,         \* the parsed command line
    feed,         \* the subreddit's listing, newest first (environment)
    stable,       \* TRUE when the server answers a URL the same way each time
    server,       \* with stable: the answers given so far, by URL
    destIsFile,   \* args.dir names a regular file (environment)
    dirExists,    \* os.path.exists(args.dir)
    files,        \* the files of args.dir: name -> content
    startFiles,   \* files as they were when the run started
    pc,           \* where the run is
    nTotal, nDownloaded, nErrors, nSkipped, nFailed,
    bFinished,
    lastId,
    postings,     \* the page being walked
    postIdx,      \* position of post in postings
    urls,         \* what _extractUrls returned for post
    urlIdx,       \* position of url in urls
    requests,     \* network calls made so far in this run
    nFetch,       \* calls of _downloadFromUrl so far in this run
    resolved,     \* ids of the posts handed to _extractUrls in this run
    lastFetch,    \* url and outcome of the latest _downloadFromUrl call
    gotUrls,      \* URLs downloaded in this run
    dupUrls,      \* URLs that raised FileExistsException in this run
    cursors,      \* the lastId of every getitems call of this run, in order
    reported,     \* the final summary line was printed
    run,          \* 1 in a first run, 2 in a run repeated after it
    prevGot,      \* gotUrls of the first run
    call          \* component level: the latest direct call and its result

vars == <<args, feed, stable, destIsFile, server, dirExists, files, startFiles, pc,
          nTotal, nDownloaded, nErrors, nSkipped, nFailed, bFinished, lastId,
          postings, postIdx, urls, urlIdx, requests, nFetch, resolved,
          lastFetch, gotUrls, dupUrls, cursors, reported, run, prevGot, call>>

counters == <<nTotal, nDownloaded, nErrors, nSkipped, nFailed>>
env      == <<args, feed, stable, destIsFile>>
history  == <<requests, nFetch, resolved, lastFetch, gotUrls, dupUrls, cursors>>

\* Bounds of the model.
MaxFeed  == 3
PageSize == 2
MaxNum   == 2

\* re.match(reRule, title) for a rule that is a literal text: the title has
\* to start with it.
ReMatch(rule, title) == StartsWith(title, rule)

\* The chain with the score test taking the minimum itself as too low.
FilterRejectsAtMinimum(a, post) ==
    \/ post.score <= a.score
    \/ a.sfw /\ post.over_18
    \/ a.nsfw /\ ~post.over_18
    \/ a.regex # "" /\ ~ReMatch(a.regex, post.title)

\* The chain with --sfw switching the --nsfw test off.
FilterRejectsSfwWins(a, post) ==
    \/ post.score < a.score
    \/ a.sfw /\ post.over_18
    \/ a.nsfw /\ ~a.sfw /\ ~post.over_18
    \/ a.regex # "" /\ ~ReMatch(a.regex, post.title)

\* The if/elif chain of the item filter: TRUE when the post is skipped.
FilterRejects(a, post) ==
    \/ post.score < a.score
    \/ a.sfw /\ post.over_18
    \/ a.nsfw /\ ~post.over_18
    \/ a.regex # "" /\ ~ReMatch(a.regex, post.title)

\* The count test missing its target by one.
StopOnCountLate(a, n) == a.num > 0 /\ n > a.num

\* args.num > 0 and nDownloaded >= args.num, after a download
StopOnCount(a, n) == a.num > 0 /\ n >= a.num

\* A handler that never ends the run on a duplicate.
StopOnExistsNever(a) == FALSE

\* if args.update, after a FileExistsException
StopOnExists(a) == a.update

\* Which except clause of the download loop takes what _downloadFromUrl
\* raised; "uncaught" leaves the loop and ends the process.
Handler(raised) ==
    IF raised = "" THEN "downloaded"
    ELSE IF raised = "WrongFileTypeException" THEN "skipped"
    ELSE IF raised = "FileExistsException" THEN "exists"
    ELSE IF raised \in TransportErrors THEN "failed"
    ELSE "uncaught"

\* reddit.getitems(subreddit, lastId): the posts that follow the post lastId
\* in the listing, a page at most; lastId 0 stands for '' (from the newest).
\* Post ids are the positions in the listing.
GetItems(listing, after) ==
    IF after > Len(listing) THEN <<>>
    ELSE SubSeq(listing, after + 1,
                IF after + PageSize < Len(listing) THEN after + PageSize
                ELSE Len(listing))

post == postings[postIdx]
url  == urls[urlIdx]

\* The answers the server may give to a GET of u, out of candidates.
Answers(u, candidates) ==
    IF stable /\ u \in DOMAIN server THEN {server[u]} ELSE candidates

Remember(u, resp) ==
    IF stable THEN (u :> resp) @@ server ELSE server

\* ---- environment: posts, listings, answers ----

PostKinds == {
    [url |-> "http://example.com/a.jpg", title |-> "cat pic",
     score |-> 10, over_18 |-> FALSE],
    [url |-> "http://imgur.com/a/alb", title |-> "a cat",
     score |-> 5, over_18 |-> TRUE],
    [url |-> "http://i.imgur.com/a.png", title |-> "cat",
     score |-> 1, over_18 |-> FALSE],
    [url |-> "example.com/f.jpg", title |-> "dog",
     score |-> 5, over_18 |-> FALSE] }

WithId(kind, id) == [id |-> id] @@ kind

Listings ==
    UNION {{[i \in 1..n |-> WithId(k[i], i)] : k \in [1..n -> PostKinds]} :
           n \in 0..MaxFeed}

AlbumPage == <<"<html>", "{\"hash\":\"h1\",\"w\":1},{\"hash\":\"h2\"}">>

WalkAlbumAnswers == {
    ErrResponse("HTTPError"),
    OkResponse(TypeInfo("image/gif"), <<"GIF89a">>),
    OkResponse(TypeInfo("text/html; charset=utf-8"), AlbumPage) }

WalkImageAnswers == {
    ErrResponse("HTTPError"),
    OkResponse(NoTypeInfo, <<"img">>),
    OkResponse(TypeInfo("text/html"), <<"<html>">>) }

NoFetch == [url |-> "", raised |-> ""]
NoCall  == [op |-> "", url |-> "", resp |-> ErrResponse(""), before |-> <<>>,
            raised |-> "", urls |-> <<>>, net |-> FALSE]

\* Command lines: every combination of the filter options with the stop
\* options, and the stop options with a starting id.
FilterArgs ==
    [last : {0}, score : {0, 5}, num : 0..MaxNum, update : BOOLEAN,
     sfw : BOOLEAN, nsfw : BOOLEAN, regex : {"", "cat"}]

PlainArgs ==
    [last : {0, 1}, score : {0}, num : 0..MaxNum, update : BOOLEAN,
     sfw : {FALSE}, nsfw : {FALSE}, regex : {""}]

\* The state the statements before the while loop start from.
StartOfRun ==
    /\ pc = "Startup"
    /\ nTotal = 0 /\ nDownloaded = 0 /\ nErrors = 0 /\ nSkipped = 0 /\ nFailed = 0
    /\ bFinished = FALSE
    /\ lastId = args.last
    /\ postings = <<>> /\ postIdx = 0 /\ urls = <<>> /\ urlIdx = 0
    /\ requests = 0 /\ nFetch = 0 /\ resolved = {} /\ lastFetch = NoFetch
    /\ gotUrls = {} /\ dupUrls = {} /\ cursors = <<>>
    /\ reported = FALSE

\* The destination before the run: no such path, an empty directory, a
\* directory holding a file of an earlier run, or a path that exists and is
\* a regular file.
EmptyDir == destIsFile = FALSE /\ dirExists \in BOOLEAN /\ files = <<>>

UsedDir ==
    destIsFile = FALSE /\ dirExists = TRUE /\ files = ("a.jpg" :> <<"old">>)

NotADir == destIsFile = TRUE /\ dirExists = TRUE /\ files = <<>>

InitRest ==
    /\ server = <<>>
    /\ startFiles = files
    /\ StartOfRun
    /\ run = 1 /\ prevGot = {}
    /\ call = NoCall

Init ==
    /\ feed \in Listings
    /\ stable = FALSE
    /\ \/ args \in FilterArgs /\ EmptyDir
       \/ args \in PlainArgs /\ (EmptyDir \/ UsedDir \/ NotADir)
    /\ InitRest

\* ---- the run ----

\* if not os.path.exists(args.dir): os.mkdir(args.dir); an OSError of mkdir
\* is not caught and ends the process.
Startup ==
    /\ pc = "Startup"
    /\ \/ dirExists /\ pc' = "Paging" /\ UNCHANGED dirExists
       \/ ~dirExists /\ dirExists' = TRUE /\ pc' = "Paging"
       \/ ~dirExists /\ pc' = "Aborted" /\ UNCHANGED dirExists
    /\ UNCHANGED <<env, server, files, startFiles, counters, bFinished, lastId,
                   postings, postIdx, urls, urlIdx, history, reported, run,
                   prevGot, call>>

\* The final print, reached when the while loop ends.
Report == reported' = TRUE

\* The cursor taken from the first post of the page instead of the last.
NextPostFirstOfPage ==
    IF postIdx < Len(postings)
    THEN /\ postIdx' = postIdx + 1
         /\ pc' = "FilteringItem"
         /\ UNCHANGED lastId
    ELSE /\ lastId' = postings[1].id
         /\ pc' = "Paging"
         /\ UNCHANGED postIdx

\* The for loop moves to the next post; after the last one lastId is set and
\* the while loop asks for the next page.
NextPost ==
    IF postIdx < Len(postings)
    THEN /\ postIdx' = postIdx + 1
         /\ pc' = "FilteringItem"
         /\ UNCHANGED lastId
    ELSE /\ lastId' = post.id
         /\ pc' = "Paging"
         /\ UNCHANGED postIdx

\* bFinished = True; break; if bFinished: break; lastId = post['id']; the
\* while condition fails and the summary is printed.
StopRun ==
    /\ bFinished' = TRUE
    /\ lastId' = post.id
    /\ pc' = "StoppedByPolicy"
    /\ Report
    /\ UNCHANGED postIdx

\* postings = reddit.getitems(args.reddit, lastId), outside any try: when the
\* call fails what it raises ends the process; an empty page ends the loop.
PageCall(fails) ==
    /\ pc = "Paging"
    /\ requests' = requests + 1
    /\ cursors' = Append(cursors, lastId)
    /\ IF fails
       THEN /\ pc' = "Crashed"
            /\ UNCHANGED <<postings, postIdx, reported>>
       ELSE /\ postings' = GetItems(feed, lastId)
            /\ IF postings' = <<>>
               THEN pc' = "Exhausted" /\ Report /\ UNCHANGED postIdx
               ELSE pc' = "FilteringItem" /\ postIdx' = 1 /\ UNCHANGED reported
    /\ UNCHANGED <<env, server, dirExists, files, startFiles, counters,
                   bFinished, lastId, urls, urlIdx, nFetch, resolved,
                   lastFetch, gotUrls, dupUrls, run, prevGot, call>>

RequestPage == \E fails \in BOOLEAN : PageCall(fails)

\* One pass of the for loop up to the filter's verdict.
FilterItem ==
    /\ pc = "FilteringItem"
    /\ nTotal' = nTotal + 1
    /\ IF FilterRejects(args, post)
       THEN nSkipped' = nSkipped + 1 /\ NextPost
       ELSE pc' = "ResolvingURL" /\ UNCHANGED <<nSkipped, postIdx, lastId>>
    /\ UNCHANGED <<env, server, dirExists, files, startFiles, nDownloaded,
                   nErrors, nFailed, bFinished, postings, urls, urlIdx,
                   history, reported, run, prevGot, call>>

\* _extractUrls tabulated over the URLs of the posts and the answers of the
\* server: Resolutions[u, resp] is ExtractUrls(u, resp).
Resolutions ==
    [u \in {k.url : k \in PostKinds},
     resp \in WalkAlbumAnswers \cup WalkImageAnswers |-> ExtractUrls(u, resp)]

\* _extractUrls(post['url']) in the head of the inner for loop, outside the
\* try: what it raises ends the process.
ResolveURL ==
    /\ pc = "ResolvingURL"
    /\ \E resp \in Answers(post.url, WalkAlbumAnswers) :
         LET r == Resolutions[post.url, resp]
         IN  /\ resolved' = resolved \cup {post.id}
             /\ requests' = requests + (IF r.net THEN 1 ELSE 0)
             /\ server' = IF r.net THEN Remember(post.url, resp) ELSE server
             /\ IF r.raised # ""
                THEN pc' = "Crashed" /\ UNCHANGED <<urls, urlIdx, postIdx, lastId>>
                ELSE IF r.urls = <<>>
                THEN NextPost /\ UNCHANGED <<urls, urlIdx>>
                ELSE /\ urls' = r.urls
                     /\ urlIdx' = 1
                     /\ pc' = "Downloading"
                     /\ UNCHANGED <<postIdx, lastId>>
    /\ UNCHANGED <<env, dirExists, files, startFiles, counters, bFinished,
                   postings, nFetch, lastFetch, gotUrls, dupUrls, cursors,
                   reported, run, prevGot, call>>

\* The inner for loop moves to the next url, or the post is done.
NextUrl ==
    IF urlIdx < Len(urls)
    THEN urlIdx' = urlIdx + 1 /\ UNCHANGED <<pc, postIdx, lastId>>
    ELSE NextPost /\ UNCHANGED urlIdx

\* One pass of the inner for loop: _downloadFromUrl(url, args.dir) and the
\* except clause that takes what it raised.
Download ==
    /\ pc = "Downloading"
    /\ \E resp \in Answers(url, WalkImageAnswers) :
         LET d == DownloadFromUrl(url, resp, files, dirExists /\ ~destIsFile)
             h == Handler(d.raised)
             sent == HasScheme(url)
         IN  /\ files' = d.dir
             /\ server' = IF sent THEN Remember(url, resp) ELSE server
             /\ requests' = requests + (IF sent THEN 1 ELSE 0)
             /\ nFetch' = nFetch + 1
             /\ lastFetch' = [url |-> url, raised |-> d.raised]
             /\ gotUrls' = IF h = "downloaded" THEN gotUrls \cup {url} ELSE gotUrls
             /\ dupUrls' = IF h = "exists" THEN dupUrls \cup {url} ELSE dupUrls
             /\ nDownloaded' = nDownloaded + (IF h = "downloaded" THEN 1 ELSE 0)
             /\ nSkipped' = nSkipped + (IF h = "skipped" THEN 1 ELSE 0)
             /\ nErrors' = nErrors + (IF h = "exists" THEN 1 ELSE 0)
             /\ nFailed' = nFailed + (IF h = "failed" THEN 1 ELSE 0)
             /\ IF h = "uncaught"
                THEN /\ pc' = "Crashed"
                     /\ UNCHANGED <<urlIdx, postIdx, lastId, bFinished, reported>>
                ELSE IF \/ h = "downloaded" /\ StopOnCount(args, nDownloaded')
                        \/ h = "exists" /\ StopOnExists(args)
                THEN StopRun /\ UNCHANGED urlIdx
                ELSE NextUrl /\ UNCHANGED <<bFinished, reported>>
    /\ UNCHANGED <<env, dirExists, startFiles, nTotal, postings, urls,
                   resolved, cursors, run, prevGot, call>>

Next == Startup \/ RequestPage \/ FilterItem \/ ResolveURL \/ Download

Spec == Init /\ [][Next]_vars

\* The run over a feed that answers every page request; the process keeps
\* executing its next statement until it ends.
NextAnswered ==
    Startup \/ PageCall(FALSE) \/ FilterItem \/ ResolveURL \/ Download

SpecAnswered == Init /\ [][NextAnswered]_vars /\ WF_vars(NextAnswered)

(***************************************************************************)
(* The components called directly, on inputs drawn from bounded sets       *)
(***************************************************************************)

UnitArgs == [last |-> 0, score |-> 0, num |-> 0, update |-> FALSE,
             sfw |-> FALSE, nsfw |-> FALSE, regex |-> ""]

InitUnit ==
    /\ args = UnitArgs
    /\ feed = <<>>
    /\ stable = FALSE
    /\ destIsFile \in BOOLEAN /\ dirExists = TRUE /\ files = <<>>
    /\ InitRest

walker == <<env, server, dirExists, startFiles, pc, counters,
            bFinished, lastId, postings, postIdx, urls, urlIdx, history,
            reported, run, prevGot>>

\* ---- _downloadFromUrl(url, destDir) ----

FetchURLs == {
    "http://i.imgur.com/a.jpg",
    "http://example.com/x/a.jpg",
    "http://example.com/b.jpeg",
    "http://example.com/c.png",
    "http://example.com/d.gif",
    "http://example.com/page",
    "http://example.com/dir/",
    "http://example.com/e.jpg?w=1",
    "example.com/f.jpg" }

FetchAnswers ==
    {ErrResponse(e) : e \in TransportErrors}
    \cup {OkResponse(NoTypeInfo, <<"img">>)}
    \cup {OkResponse(TypeInfo(t), <<"img">>) :
            t \in AcceptedTypes \cup {"text/html", "image/bmp"}}

FetchCall ==
    /\ \E u \in FetchURLs, resp \in FetchAnswers :
         LET d == DownloadFromUrl(u, resp, files, dirExists /\ ~destIsFile)
         IN  /\ files' = d.dir
             /\ call' = [op |-> "fetch", url |-> u, resp |-> resp,
                         before |-> files, raised |-> d.raised,
                         urls |-> <<>>, net |-> HasScheme(u)]
    /\ UNCHANGED walker

SpecFetch == InitUnit /\ [][FetchCall]_vars

\* ---- _extractUrls(url) ----

ResolveHosts == {
    "http://imgur.com", "http://i.imgur.com", "https://m.imgur.com",
    "http://example.com", "http://notimgur.com", "http://imgur.com.example.org" }

ResolvePaths == {
    "", "/", "/pic", "/pic.png", "/pic.jpg", "/pic.jpeg", "/pic.gif",
    "/p.png.png", "/.gif", "/a/alb", "/gallery/g1", "/r?u=imgur.com/a/z" }

ResolveURLs == {h \o p : h \in ResolveHosts, p \in ResolvePaths}

ResolveAnswers == {
    ErrResponse("HTTPError"),
    ErrResponse("URLError"),
    OkResponse(TypeInfo("image/jpeg"), <<"img">>),
    OkResponse(TypeInfo("text/html"), AlbumPage),
    OkResponse(NoTypeInfo, AlbumPage) }

ResolveCall ==
    /\ \E u \in ResolveURLs, resp \in ResolveAnswers :
         LET r == ExtractUrls(u, resp)
         IN  call' = [op |-> "resolve", url |-> u, resp |-> resp,
                      before |-> files, raised |-> r.raised,
                      urls |-> r.urls, net |-> r.net]
    /\ UNCHANGED <<walker, files>>

SpecResolve == InitUnit /\ [][ResolveCall]_vars

\* ---- _extractImgurAlbumUrls(albumUrl) ----

AlbumURLs == {"http://imgur.com/a/alb", "https://m.imgur.com/a/b2", "imgur.com/a/alb"}

AlbumBodies == {
    <<>>,
    <<"<html>", "</html>">>,
    AlbumPage,
    <<"{\"hash\":\"h1\"}", "{\"hash\":\"h2\"},{\"hash\":\"h1\"}">>,
    <<"\"hash\":\"h2\",\"hash\":\"\",\"hash\":\"h3\"">>,
    <<"{\"hash\":\"h1", "\"}">>,
    <<"<html", "\"hash\":", "\"hash\":\"">>,
    <<"GIF89a\"hash\":\"zz\"">> }

AlbumTypes == {
    "text/html", "text/html; charset=utf-8", "text/plain",
    "application/json", "image/gif", "TEXT/HTML" }

ExpandAnswers ==
    {ErrResponse(e) : e \in TransportErrors}
    \cup {OkResponse(NoTypeInfo, b) : b \in AlbumBodies}
    \cup {OkResponse(TypeInfo(t), b) : t \in AlbumTypes, b \in AlbumBodies}

ExpandCall ==
    /\ \E u \in AlbumURLs, resp \in ExpandAnswers :
         LET r == ExtractImgurAlbumUrls(u, resp)
         IN  call' = [op |-> "expand", url |-> u, resp |-> resp,
                      before |-> files, raised |-> r.raised,
                      urls |-> r.urls, net |-> r.net]
    /\ UNCHANGED <<walker, files>>

SpecExpand == InitUnit /\ [][ExpandCall]_vars

(***************************************************************************)
(* A second run of the same command line over the directory the first run  *)
(* left, the feed and the server answering as before                       *)
(***************************************************************************)

RerunArgs == {a \in FilterArgs \cup PlainArgs : a.num = 0}

InitRerun ==
    /\ feed \in Listings
    /\ stable = TRUE
    /\ args \in RerunArgs
    /\ (EmptyDir \/ UsedDir \/ NotADir)
    /\ InitRest

Rerun ==
    /\ run = 1
    /\ pc = "Exhausted"
    /\ run' = 2
    /\ prevGot' = gotUrls
    /\ startFiles' = files
    /\ pc' = "Startup"
    /\ nTotal' = 0 /\ nDownloaded' = 0 /\ nErrors' = 0 /\ nSkipped' = 0
    /\ nFailed' = 0
    /\ bFinished' = FALSE
    /\ lastId' = args.last
    /\ postings' = <<>> /\ postIdx' = 0 /\ urls' = <<>> /\ urlIdx' = 0
    /\ requests' = 0 /\ nFetch' = 0 /\ resolved' = {} /\ lastFetch' = NoFetch
    /\ gotUrls' = {} /\ dupUrls' = {} /\ cursors' = <<>>
    /\ reported' = FALSE
    /\ UNCHANGED <<env, server, dirExists, files, call>>

SpecRerun == InitRerun /\ [][Next \/ Rerun]_vars

(***************************************************************************)
(* Claims                                                                  *)
(***************************************************************************)

Terminal == {"Exhausted", "StoppedByPolicy"}

\* The destination directory exists: the path is there and is a directory.
DirInPlace == dirExists /\ ~destIsFile

NewFiles == DOMAIN files \ DOMAIN startFiles

\* What a run does to the world outside its own loop variables.
progress == <<requests, nFetch, resolved, files, counters>>

\* C1: with a target count num > 0 the downloaded counter never exceeds num,
\* the download that makes it reach num ends the run in StoppedByPolicy with
\* the summary printed, and from then on no URL is fetched, no item is
\* filtered or resolved and no page is requested.
C1_StopsAtTargetCount ==
    /\ [](args.num > 0 => nDownloaded <= args.num)
    /\ []((args.num > 0 /\ nDownloaded = args.num)
             => (pc = "StoppedByPolicy" /\ bFinished /\ reported
                 /\ lastFetch.raised = ""))
    /\ [][(args.num > 0 /\ nDownloaded >= args.num) => UNCHANGED progress]_vars

\* --num 1, a page of two items that both pass the filter and resolve to one
\* URL each: the first was downloaded and the second was never resolved.
C1_Witness ==
    /\ args.num = 1 /\ nDownloaded = 1 /\ pc = "StoppedByPolicy"
    /\ Len(postings) = 2 /\ postIdx = 1 /\ Len(urls) = 1
    /\ ~FilterRejects(args, postings[2])
    /\ postings[2].url = "http://example.com/a.jpg"
    /\ resolved = {postings[1].id}
    /\ nTotal = 1 /\ nFetch = 1

\* C2: in update mode the duplicate-error counter never exceeds 1; the first
\* AlreadyExists ends the run in StoppedByPolicy, the downloaded counter then
\* being the number of files written before it; afterwards nothing more is
\* fetched, filtered, resolved or requested.
C2_UpdateStopsAtFirstDuplicate ==
    /\ [](args.update => nErrors <= 1)
    /\ []((args.update /\ nErrors = 1)
             => (/\ pc = "StoppedByPolicy" /\ bFinished /\ reported
                 /\ lastFetch.raised = "FileExistsException"
                 /\ nDownloaded = Cardinality(NewFiles)
                 /\ nDownloaded < nFetch))
    /\ [][(args.update /\ nErrors >= 1) => UNCHANGED progress]_vars

\* --update, AlreadyExists on the third URL after two downloads.
C2_Witness ==
    /\ args.update /\ nErrors = 1 /\ nFetch = 3 /\ nDownloaded = 2
    /\ nSkipped = 0 /\ nFailed = 0
    /\ pc = "StoppedByPolicy"

\* The filter's verdict as the specification words it.
C3_Rejected(p) ==
    \/ p.score < args.score
    \/ args.sfw /\ p.over_18 = TRUE
    \/ args.nsfw /\ p.over_18 = FALSE
    \/ /\ args.regex # ""
       /\ \/ Len(p.title) < Len(args.regex)
          \/ \E i \in 1..Len(args.regex) :
                SubSeq(p.title, i, i) # SubSeq(args.regex, i, i)

\* C3: every item observed adds exactly 1 to total; it is rejected exactly
\* when its score is below the minimum, or it is adult in SFW-only mode, or
\* not adult in NSFW-only mode, or its title does not start with a match of
\* the configured pattern; a rejected item adds exactly 1 to skipped and is
\* never resolved or fetched, an accepted one is handed to the resolver.
C3_FilterDecides ==
    /\ [][pc = "FilteringItem" =>
            /\ nTotal' = nTotal + 1
            /\ IF C3_Rejected(postings[postIdx])
               THEN /\ nSkipped' = nSkipped + 1
                    /\ pc' \in {"FilteringItem", "Paging"}
                    /\ UNCHANGED <<requests, nFetch, resolved, files,
                                   nDownloaded, nErrors, nFailed>>
               ELSE /\ pc' = "ResolvingURL"
                    /\ UNCHANGED <<postIdx, nSkipped>>]_vars
    /\ [][pc = "ResolvingURL" => postings[postIdx].id \in resolved']_vars
    /\ [][pc # "FilteringItem" => nTotal' = nTotal]_vars
    /\ [](\A id \in resolved : ~C3_Rejected(feed[id]))

\* One page with scores [10, 1] walked under --score 5.
C3_Witness ==
    /\ args.score = 5 /\ pc = "Paging"
    /\ Len(postings) = 2 /\ postings[1].score = 10 /\ postings[2].score = 1
    /\ postIdx = 2
    /\ nTotal = 2 /\ nDownloaded = 1 /\ nSkipped = 1
    /\ resolved = {postings[1].id}

\* C4: once the destination directory exists no error ends the process: a
\* transport failure raised while a gallery is expanded or a URL is
\* downloaded is counted as failed and the walker goes on with the next URL
\* (the claim says the same of a failure while paging).
C4_NoErrorIsFatal ==
    [][(DirInPlace /\ pc \in {"ResolvingURL", "Downloading"})
          => (/\ pc' # "Crashed"
              /\ (requests' # requests /\ nFailed' = nFailed)
                    => (nFetch' # nFetch /\ lastFetch'.raised \notin TransportErrors))]_vars

\* C5 as claimed: a second run after a first that ended in Exhausted (no
\* target count) writes nothing, downloads nothing, and meets AlreadyExists
\* for every URL the first run downloaded.
C5_RerunRepeatsEveryDuplicate ==
    (run = 2 /\ pc \in Terminal)
        => (/\ files = startFiles
            /\ nDownloaded = 0
            /\ prevGot \subseteq dupUrls)

\* C5 as amended: the second run writes nothing and downloads nothing; every
\* URL of the first run's downloads that it fetches yields AlreadyExists;
\* without update mode it fetches them all, with update mode it ends at the
\* first of them.
C5_RerunDownloadsNothing ==
    run = 2 =>
        /\ files = startFiles
        /\ nDownloaded = 0 /\ gotUrls = {}
        /\ lastFetch.url \in prevGot => lastFetch.raised = "FileExistsException"
        /\ dupUrls \cap prevGot # {} => nFetch > 0
        /\ (pc = "Exhausted" /\ ~args.update) => prevGot \subseteq dupUrls
        /\ (pc \in Terminal /\ args.update /\ prevGot # {})
               => (pc = "StoppedByPolicy" /\ nErrors = 1
                   /\ lastFetch.url \in prevGot)

\* The second run of a command line without --update ended, having met
\* AlreadyExists for each of the two files the first run wrote.
C5_Witness ==
    /\ run = 2 /\ pc = "Exhausted" /\ ~args.update
    /\ Cardinality(prevGot) >= 2 /\ prevGot \subseteq dupUrls
    /\ nErrors >= 2 /\ nDownloaded = 0

\* The final path segment of a URL, as the specification words it: what
\* follows the last "/" (the whole text when there is none).
FinalSegment(u) ==
    LET cuts == {i \in 0..Len(u) :
                    /\ i = 0 \/ SubSeq(u, i, i) = "/"
                    /\ \A k \in (i + 1)..Len(u) : SubSeq(u, k, k) # "/"}
    IN  SubSeq(u, (CHOOSE i \in cuts : TRUE) + 1, Len(u))

HasSuffix(u, suf) ==
    Len(u) >= Len(suf) /\ \A i \in 1..Len(suf) :
        SubSeq(u, Len(u) - Len(suf) + i, Len(u) - Len(suf) + i) = SubSeq(suf, i, i)

\* The type the specification resolves: the declared header, else the type
\* of the URL's extension, else unknown.
ResolvedType(u, info) ==
    CASE "content-type" \in DOMAIN info -> info["content-type"]
      [] "content-type" \notin DOMAIN info
            /\ (HasSuffix(u, ".jpg") \/ HasSuffix(u, ".jpeg")) -> "image/jpeg"
      [] "content-type" \notin DOMAIN info /\ HasSuffix(u, ".png") -> "image/png"
      [] "content-type" \notin DOMAIN info /\ HasSuffix(u, ".gif") -> "image/gif"
      [] OTHER -> "unknown"

\* The GET of the latest fetch was answered (urlopen raised nothing).
Answered == call.raised \notin TransportErrors \cup {"ValueError"}

\* C6 as claimed: a fetch fails with AlreadyExists whenever a file named by
\* the URL's final path segment is already in destDir.
C6_ExistingFileAlwaysAlreadyExists ==
    (call.op = "fetch" /\ FinalSegment(call.url) \in DOMAIN call.before)
        => call.raised = "FileExistsException"

\* C6 as amended: a fetch whose GET is answered with an accepted type fails
\* with AlreadyExists whenever a file named by the URL's final path segment
\* is already in destDir, whichever URL wrote it; so a fetch repeated after
\* it succeeded, the server answering the same, fails with AlreadyExists.
C6_ExistingFileAlreadyExists ==
    /\ []((/\ call.op = "fetch"
           /\ FinalSegment(call.url) \in DOMAIN call.before
           /\ Answered
           /\ ResolvedType(call.url, call.resp.info) \in
                  {"image/jpeg", "image/png", "image/gif"})
             => (call.raised = "FileExistsException" /\ files = call.before))
    /\ [][(/\ call.op = "fetch" /\ call.raised = ""
           /\ call'.url = call.url /\ call'.resp = call.resp)
             => call'.raised = "FileExistsException"]_vars

\* A URL on another host with the final segment of a file already written by
\* a fetch of http://i.imgur.com/a.jpg fails with AlreadyExists.
C6_Witness ==
    /\ call.op = "fetch" /\ call.url = "http://example.com/x/a.jpg"
    /\ call.raised = "FileExistsException"
    /\ "a.jpg" \in DOMAIN call.before
    /\ "b.jpeg" \notin DOMAIN call.before

\* C7: an answered fetch fails with WrongContentType exactly when the
\* resolved type (header if declared, else by URL extension, else unknown)
\* is none of jpeg, png, gif; a declared header wins over the extension.
C7_TypeDecidesRejection ==
    (call.op = "fetch" /\ Answered) =>
        /\ (call.raised = "WrongFileTypeException")
              <=> (ResolvedType(call.url, call.resp.info) \notin
                       {"image/jpeg", "image/png", "image/gif"})
        /\ ("content-type" \in DOMAIN call.resp.info
              /\ call.resp.info["content-type"] \in {"text/html", "image/bmp"})
              => call.raised = "WrongFileTypeException"

\* A URL ending in .jpg whose header declares text/html is rejected.
C7_Witness ==
    /\ call.op = "fetch" /\ call.url = "http://i.imgur.com/a.jpg"
    /\ "content-type" \in DOMAIN call.resp.info
    /\ call.resp.info["content-type"] = "text/html"
    /\ call.raised = "WrongFileTypeException"

\* C8: the gallery expander never throws; whatever the GET does it returns a
\* sequence, empty when the declared content type is not an HTML type.
C8_ExpanderNeverThrows ==
    call.op = "expand" =>
        /\ call.raised = ""
        /\ ("content-type" \in DOMAIN call.resp.info
              /\ ~OccursAt(call.resp.info["content-type"], "text/html", 1))
              => call.urls = <<>>

\* The host of a URL: what stands between "://" and the next "/", "?" or "#".
HostOf(u) ==
    LET marks == {i \in 1..Len(u) : OccursAt(u, "://", i)}
        start == IF marks = {} THEN 1
                 ELSE (CHOOSE i \in marks : \A j \in marks : i <= j) + 3
        stops == {k \in start..Len(u) : SubSeq(u, k, k) \in {"/", "?", "#"}}
        end   == IF stops = {} THEN Len(u)
                 ELSE (CHOOSE k \in stops : \A j \in stops : k <= j) - 1
    IN  SubSeq(u, start, end)

\* The path of a URL: from the first "/" behind the host up to "?" or "#".
PathOf(u) ==
    LET marks == {i \in 1..Len(u) : OccursAt(u, "://", i)}
        start == (IF marks = {} THEN 1
                  ELSE (CHOOSE i \in marks : \A j \in marks : i <= j) + 3)
                 + Len(HostOf(u))
        stops == {k \in start..Len(u) : SubSeq(u, k, k) \in {"?", "#"}}
        end   == IF stops = {} THEN Len(u)
                 ELSE (CHOOSE k \in stops : \A j \in stops : k <= j) - 1
    IN  SubSeq(u, start, end)

OnImageHost(u) == HostOf(u) = "imgur.com" \/ HasSuffix(HostOf(u), ".imgur.com")

\* An album: a path segment "a" followed by the album's name.
IsGalleryUrl(u) == \E i \in 1..Len(u) : OccursAt(u, "/a/", i)

\* C9: a URL that is neither a gallery URL nor hosted on the image host is
\* resolved to the one-element sequence holding it unchanged, without
\* network I/O.
C9_OtherUrlsUnchanged ==
    (call.op = "resolve" /\ ~IsGalleryUrl(call.url) /\ ~OnImageHost(call.url))
        => (call.raised = "" /\ call.urls = <<call.url>> /\ ~call.net)

\* The path has a last segment and no "." in it: no file extension.
NoExtension(u) ==
    /\ FinalSegment(PathOf(u)) # ""
    /\ \A i \in 1..Len(FinalSegment(PathOf(u))) :
          SubSeq(FinalSegment(PathOf(u)), i, i) # "."

\* C10: a non-gallery URL on the image host resolves to one URL: with a final
\* .png rewritten to .jpg and nothing else changed; with .jpg appended when
\* the path has no file extension; unchanged when it ends in .jpg, .jpeg or
\* .gif.
C10_ImageHostNormalised ==
    (call.op = "resolve" /\ OnImageHost(call.url) /\ ~IsGalleryUrl(call.url))
        => /\ call.raised = "" /\ Len(call.urls) = 1
           /\ HasSuffix(call.url, ".png")
                 => call.urls[1] = SubSeq(call.url, 1, Len(call.url) - 4) \o ".jpg"
           /\ NoExtension(call.url) => call.urls[1] = call.url \o ".jpg"
           /\ (HasSuffix(call.url, ".jpg") \/ HasSuffix(call.url, ".jpeg")
                 \/ HasSuffix(call.url, ".gif")) => call.urls[1] = call.url

\* The id of the last item of a page.
LastOf(page) == page[Len(page)].id

\* C11: the first page request uses the starting id given on the command
\* line; every later page request uses the id of the last item of the page
\* fetched just before it, whatever the filter and the downloads did with
\* the items of that page; while the walker is about to request a page the
\* cursor is that id.
C11_CursorIsLastOfPage ==
    /\ Len(cursors) >= 1 => cursors[1] = args.last
    /\ \A i \in 2..Len(cursors) :
          /\ GetItems(feed, cursors[i - 1]) # <<>>
          /\ cursors[i] = LastOf(GetItems(feed, cursors[i - 1]))
    /\ (pc = "Paging" /\ cursors # <<>>)
          => (postings # <<>> /\ lastId = LastOf(postings)
              /\ postings = GetItems(feed, cursors[Len(cursors)]))
    /\ (pc = "Paging" /\ cursors = <<>>) => lastId = args.last

\* A first page whose items were all filtered out, and the second page
\* requested with the id of its last item.
C11_Witness ==
    /\ Len(cursors) = 2 /\ pc = "FilteringItem" /\ postIdx = 1
    /\ nTotal = PageSize /\ nSkipped = PageSize /\ resolved = {}
    /\ cursors[2] = feed[PageSize].id
    /\ postings[1].id = PageSize + 1

\* C12: over a feed that answers every page request and ends with an empty
\* page, a run that has begun paging eventually reaches Exhausted or
\* StoppedByPolicy with the final counters reported; Exhausted is reached on
\* the first empty page; every terminal state has the counters reported and
\* nothing is requested, filtered, resolved or fetched after it.
C12_EveryRunEndsReported ==
    /\ (pc = "Paging") ~> (pc \in Terminal /\ reported)
    /\ [](pc \in Terminal => reported)
    /\ [](pc = "Exhausted" => (postings = <<>> /\ ~bFinished))
    /\ [][(pc \in Terminal) => UNCHANGED progress]_vars

\* C13: with --sfw and --nsfw both set every item is rejected: nothing is
\* ever downloaded, the resolver and the fetcher are never called (the only
\* network calls are page requests), no file is written, and skipped equals
\* total whenever a page has been walked.
C13_BothModesRejectAll ==
    (args.sfw /\ args.nsfw) =>
        /\ nDownloaded = 0 /\ nErrors = 0 /\ nFailed = 0
        /\ resolved = {} /\ nFetch = 0 /\ lastFetch = NoFetch
        /\ pc \notin {"ResolvingURL", "Downloading", "StoppedByPolicy"}
        /\ requests = Len(cursors)
        /\ files = startFiles
        /\ pc \in {"Paging", "Exhausted"} => nSkipped = nTotal

\* Both modes set, no other filter: a page holding an adult and a non-adult
\* post walked to its end, both skipped.
C13_Witness ==
    /\ args.sfw /\ args.nsfw /\ args.score = 0 /\ args.regex = ""
    /\ pc = "Paging" /\ Len(postings) = 2
    /\ postings[1].over_18 /\ ~postings[2].over_18
    /\ postIdx = 2 /\ nTotal = 2 /\ nSkipped = 2

\* C14: with the destination directory in place, a call of the fetcher in
\* Downloading ends in one of four ways and changes exactly one counter, by
\* 1: downloaded on success, skipped on WrongContentType, duplicateErrors on
\* AlreadyExists, failed on a transport failure; total is left alone.  After
\* WrongContentType, a transport failure, or AlreadyExists without update
\* mode, the walker goes on with the next URL of the same item (with the
\* next item when there is none left).  The fetcher is called in no other
\* state.
C14_OneCounterPerFetch ==
    /\ [][(DirInPlace /\ pc = "Downloading") =>
            LET o == lastFetch'.raised
            IN  /\ nFetch' = nFetch + 1
                /\ lastFetch'.url = urls[urlIdx]
                /\ o \in {"", "WrongFileTypeException", "FileExistsException"}
                          \cup TransportErrors
                /\ o = "" =>
                      counters' = <<nTotal, nDownloaded + 1, nErrors, nSkipped, nFailed>>
                /\ o = "WrongFileTypeException" =>
                      counters' = <<nTotal, nDownloaded, nErrors, nSkipped + 1, nFailed>>
                /\ o = "FileExistsException" =>
                      counters' = <<nTotal, nDownloaded, nErrors + 1, nSkipped, nFailed>>
                /\ o \in TransportErrors =>
                      counters' = <<nTotal, nDownloaded, nErrors, nSkipped, nFailed + 1>>
                /\ (\/ o = "WrongFileTypeException"
                    \/ o \in TransportErrors
                    \/ o = "FileExistsException" /\ ~args.update)
                      => /\ ~bFinished' /\ ~reported'
                         /\ IF urlIdx < Len(urls)
                            THEN /\ pc' = "Downloading" /\ urlIdx' = urlIdx + 1
                                 /\ UNCHANGED <<urls, postings, postIdx>>
                            ELSE pc' \in {"FilteringItem", "Paging"}]_vars
    /\ [][nFetch' # nFetch => pc = "Downloading"]_vars

\* C15: the destination directory is append-only: every file that was there
\* before a call of the fetcher is there after it with the same content; a
\* call that raises (WrongContentType, AlreadyExists, a transport failure)
\* leaves the directory as it was; a successful call adds exactly one file,
\* which was not there before, named by the URL's final path segment and
\* holding the response body.
C15_DirectoryAppendOnly ==
    call.op = "fetch" =>
        /\ \A f \in DOMAIN call.before :
              f \in DOMAIN files /\ files[f] = call.before[f]
        /\ call.raised # "" => files = call.before
        /\ call.raised = "" =>
              /\ FinalSegment(call.url) \notin DOMAIN call.before
              /\ DOMAIN files = DOMAIN call.before \cup {FinalSegment(call.url)}
              /\ files[FinalSegment(call.url)] = call.resp.body

\* A successful fetch of a URL with a query string into a directory that
\* already held two files.
C15_Witness ==
    /\ call.op = "fetch" /\ call.raised = ""
    /\ call.url = "http://example.com/e.jpg?w=1"
    /\ DOMAIN call.before = {"a.jpg", "c.png"}
    /\ DOMAIN files = {"a.jpg", "c.png", "e.jpg?w=1"}

\* The token of an occurrence of the marker "hash":"<token>" at position p
\* of a line: the text between the marker and the next quote.
TokenAt(line, p) ==
    LET first  == p + Len(HashMarker)
        quotes == {k \in first..Len(line) : SubSeq(line, k, k) = "\""}
    IN  SubSeq(line, first, (CHOOSE k \in quotes : \A j \in quotes : k <= j) - 1)

\* "hash":"<token>" occurs at position p of the line, <token> being one or
\* more characters other than a quote.
MarkerAt(line, p) ==
    /\ OccursAt(line, HashMarker, p)
    /\ \E k \in (p + Len(HashMarker) + 1)..Len(line) : SubSeq(line, k, k) = "\""
    /\ SubSeq(line, p + Len(HashMarker), p + Len(HashMarker)) # "\""

\* The tokens of the occurrences in a line from position p on, left to right.
RECURSIVE LineTokens(_, _)
LineTokens(line, p) ==
    IF p > Len(line) THEN <<>>
    ELSE (IF MarkerAt(line, p) THEN <<TokenAt(line, p)>> ELSE <<>>)
         \o LineTokens(line, p + 1)

\* The tokens of a page, line by line.
RECURSIVE PageTokens(_)
PageTokens(lines) ==
    IF lines = <<>> THEN <<>>
    ELSE LineTokens(Head(lines), 1) \o PageTokens(Tail(lines))

\* C16: for a page declared as HTML, or with no declared type, the expander
\* returns one URL http://i.imgur.com/<token>.jpg per occurrence of
\* "hash":"<token>" in the page, in the order of the occurrences (line by
\* line, left to right), repeated tokens repeated.
C16_OneUrlPerMarker ==
    (/\ call.op = "expand" /\ call.raised = ""
     /\ \/ "content-type" \notin DOMAIN call.resp.info
        \/ OccursAt(call.resp.info["content-type"], "text/html", 1))
        => call.urls = [i \in 1..Len(PageTokens(call.resp.body)) |->
                          "http://i.imgur.com/" \o PageTokens(call.resp.body)[i]
                              \o ".jpg"]

\* C17: the destination directory exists before any network activity: no
\* page request, gallery expansion or download is made while there is no
\* directory at the destination path, and a run aborted because the
\* directory could not be created has made no network call, written nothing
\* and reported nothing.
C17_DirectoryBeforeNetwork ==
    /\ (requests > 0 \/ nFetch > 0 \/ resolved # {} \/ cursors # <<>>)
          => DirInPlace
    /\ pc = "Startup" => requests = 0
    /\ pc = "Aborted" =>
          /\ ~DirInPlace
          /\ requests = 0 /\ nFetch = 0 /\ resolved = {} /\ cursors = <<>>
          /\ files = startFiles /\ nTotal = 0 /\ ~reported

\* C18: the type is checked before the existing file: a fetch answered with
\* a resolved type that is not accepted yields WrongContentType, also when a
\* file with the URL's basename is in the directory; such a fetch adds 1 to
\* skipped, leaves the duplicate-error counter and the directory alone and
\* does not stop the run, in update mode as without it.
C18_TypeBeforeExists ==
    /\ []((/\ lastFetch.url \in DOMAIN server
           /\ server[lastFetch.url].err = ""
           /\ ResolvedType(lastFetch.url, server[lastFetch.url].info) \notin
                  {"image/jpeg", "image/png", "image/gif"})
             => lastFetch.raised = "WrongFileTypeException")
    /\ [][(pc = "Downloading" /\ lastFetch'.raised = "WrongFileTypeException")
             => (/\ nSkipped' = nSkipped + 1
                 /\ nErrors' = nErrors /\ nDownloaded' = nDownloaded
                 /\ files' = files
                 /\ ~bFinished' /\ ~reported'
                 /\ pc' \in {"Downloading", "FilteringItem", "Paging"})]_vars

\* Update mode, a.jpg in the directory: the fetch of a URL named a.jpg was
\* answered with an HTML page, counted as skipped, and the run goes on.
C18_Witness ==
    /\ args.update /\ "a.jpg" \in DOMAIN startFiles
    /\ lastFetch.raised = "WrongFileTypeException"
    /\ FinalSegment(lastFetch.url) = "a.jpg"
    /\ nSkipped = 1 /\ nErrors = 0 /\ nTotal = 1
    /\ pc = "FilteringItem" /\ ~bFinished

\* The URLs the resolver can return for the post with this id.
ResolverUrls(id) ==
    UNION {{r.urls[i] : i \in 1..Len(r.urls)} :
             r \in {Resolutions[feed[id].url, resp] : resp \in WalkAlbumAnswers}}

\* C19: in every state of a run the downloaded counter is the number of
\* files in the directory that were not there when the run started (the
\* files that were there are all still there), and each new file is named
\* by the final segment of a URL the resolver returned for an item that
\* passed the filter.
C19_DownloadedCountsNewFiles ==
    /\ nDownloaded = Cardinality(NewFiles)
    /\ DOMAIN startFiles \subseteq DOMAIN files
    /\ \A f \in NewFiles :
          \E id \in resolved :
             /\ ~C3_Rejected(feed[id])
             /\ \E u \in ResolverUrls(id) : FinalSegment(u) = f

\* A run that started over a directory holding a.jpg and has downloaded the
\* two images of a gallery.
C19_Witness ==
    /\ "a.jpg" \in DOMAIN startFiles
    /\ nDownloaded = 2
    /\ NewFiles = {"h1.jpg", "h2.jpg"}
    /\ Cardinality(DOMAIN files) = 3

====
